---- MODULE Spec2Model ----
(***************************************************************************)
(* Model of the retry decorator of ngSe (src/ngSe/browser.py, duplicated    *)
(* verbatim in src/ngse.py) and of the facade operations built on it.       *)
(*                                                                          *)
(* Time is counted in ticks of 0.1 s, the default poll interval.  A failure *)
(* is an object [kind, msg, att]: the exception class, its message and the  *)
(* loop iteration that created it (its identity).                           *)
(***************************************************************************)
EXTENDS Integers, Sequences, FiniteSets, TLC

\* ------------------------------------------------------------------ bounds
MaxTimeout == 2      \* largest timeout (ticks) drawn for decorator / override
MaxInterval == 1     \* largest poll interval (ticks) drawn
MaxDur == 1          \* longest duration (ticks) of one hook or operation call
MaxStart == 1        \* latest clock reading at which a later invocation starts
ExampleTimeout == 10 \* timeout (ticks) the decorator is configured with
MaxSpin == 1         \* extra iterations followed when the clock stands still
SlowCall == 100      \* duration (ticks) of a slow call of the driver
MaxLongLoop == 3     \* iterations followed of a loop with a longer timeout
MaxInstances == 2    \* Browser objects made
MaxQuits == 2        \* explicit calls of quit

\* retry(f=None, timeout=30, interval=0.1): the interval no decorator use of
\* the repository changes, one tick.
DefaultInterval == 1

\* Python's None for an optional argument: the empty tuple; <<x>> is x given.
None == << >>
Some(x) == << x >>

\* A loop whose clock advances by a tick per iteration ends within
\* retry_timeout + 2 iterations; the model follows a loop for MaxSpin
\* iterations more, and a loop whose timeout is beyond ExampleTimeout for
\* MaxLongLoop iterations.
MaxAttempts(t) ==
    IF t <= ExampleTimeout THEN t + 2 + MaxSpin ELSE MaxLongLoop

\* ------------------------------------------------------- failure classes
\* the tuple without its last entry
element_exceptions_short ==
    { "InvalidElementStateException", "NoSuchElementException",
      "ElementNotVisibleException", "ElementStillThereError" }

element_exceptions ==
    { "InvalidElementStateException", "NoSuchElementException",
      "ElementNotVisibleException", "ElementStillThereError", "ValueError" }

\* the tuple without ValueError
cant_see_exceptions_short ==
    { "NoSuchElementException", "ElementNotVisibleException" }

cant_see_exceptions ==
    { "NoSuchElementException", "ElementNotVisibleException", "ValueError" }

\* The classes of the failures a hook or an operation of the repository
\* raises: the driver's, the built-in ones and those the repository defines.
Kinds ==
    { "InvalidElementStateException", "NoSuchElementException",
      "ElementNotVisibleException", "ElementStillThereError", "ValueError",
      "WaitFailedError", "DontRetryError", "NavigationError",
      "FrontEndError", "AssertionError" }
Msgs == { <<"m1">> }
Values == {41, 42}

\* What a call hands back: a returned value or a raised failure object.
\* kind: "Return" or the exception class; msg: the message, a tuple of
\* strings; att: the loop iteration that produced it; val: the returned value;
\* cause: the `cause` attribute of WaitFailedError / DontRetryError.
NoCause == [kind |-> "None", msg |-> << >>, att |-> 0]
NoOutcome ==
    [kind |-> "None", msg |-> << >>, att |-> 0, val |-> 0, cause |-> NoCause]
Returned(v, a) ==
    [kind |-> "Return", msg |-> << >>, att |-> a, val |-> v, cause |-> NoCause]
Failure(k, m, a) ==
    [kind |-> k, msg |-> m, att |-> a, val |-> 0, cause |-> NoCause]

\* a violated contract is a TypeError
must_be_TypeError(a) == Failure("TypeError", <<"must be of types">>, a)

\* must_be(what, name, types) when what is not of the types: `raise
\* ValueError("... must be of types (...), is of type ...")`
must_be(a) == Failure("ValueError", <<"must be of types">>, a)

\* a handler written `except Exception:` catches every failure
TransientAny(k) == TRUE

\* `except element_exceptions`: the handler of the retry loop matches k.
Transient(k) == k \in element_exceptions

\* the reserved name is popped but the decorator's value is used
EffectiveDefault(override, default) == default

\* kwargs.pop(name, default): the per-call override when given.
Effective(override, default) ==
    IF override = None THEN default ELSE override[1]

\* `time() >= end_time`: gives up on reaching the deadline
DeadlineReached(t, e) == t >= e

\* `time() > time() + retry_timeout`: a deadline read anew at every test
DeadlineNever(t, e) == FALSE

\* `time() > end_time`
DeadlinePassed(t, e) == t > e

\* `f(*args, **kwargs)` without `return`: the caller gets None
ReturnValueDropped(v) == NoOutcome

\* `return f(*args, **kwargs)`: the value handed to the caller.
ReturnValue(v) == v

\* `raise TimeoutError("timed out")` in place of the bare `raise`
ReraisedAsTimeout(e) == Failure("TimeoutError", <<"timed out">>, e.att)

\* the `raise` of the handler: re-raises the exception being handled.
Reraised(e) == e

\* str.lower(), for names over the letters H, O, I and their lower case
Lower(name) ==
    [ i \in 1..Len(name) |->
        CASE name[i] = "H" -> "h"
          [] name[i] = "O" -> "o"
          [] name[i] = "I" -> "i"
          [] OTHER -> name[i] ]

\* ------------------------------------------------------- ByDict, By
\* Names are tuples of characters.  negative_prefix = "NOT_"
negative_prefix == << "N", "O", "T", "_" >>

\* the key None of `By[None] = None`, which is not a string
NoneKey == << "None" >>

\* isinstance(item, basestring)
IsString(item) == item # NoneKey

\* item.startswith(prefix)
StartsWith(item, prefix) ==
    /\ Len(item) >= Len(prefix)
    /\ SubSeq(item, 1, Len(prefix)) = prefix

\* item[len(prefix):]
StripPrefix(item, prefix) == SubSeq(item, Len(prefix) + 1, Len(item))

\* the names the model reads and writes
NameID == << "I", "D" >>
NameX == << "X" >>
NameNOT == << "N", "O", "T" >>
NameNegativePrefix ==
    << "n", "e", "g", "a", "t", "i", "v", "e", "_", "p", "r", "e", "f", "i",
       "x" >>
Names ==
    { NameID, NameX, NameNOT, NameNegativePrefix,
      negative_prefix \o NameID, negative_prefix \o NameX,
      negative_prefix \o negative_prefix \o NameID, negative_prefix }

\* ByClause(by, f): the underlying by-type and the value transform
ByClause(by, f) == [kind |-> "ByClause", by |-> by, convert |-> f]

\* the value None, and the string "NOT_"
NoneValue == [kind |-> "None", by |-> "None", convert |-> "None"]
PrefixValue == [kind |-> "str", by |-> "NOT_", convert |-> "None"]

\* the values written to the registry
Clauses ==
    { ByClause("id", "identity"), ByClause("xpath", "_inner_text_convert"),
      NoneValue }

\* what an access gives: a value, or a failure
Gave(v) == [kind |-> "value", val |-> v]
Raised(k) == [kind |-> k, val |-> NoneValue]

\* NegativeByClause(base_by_clause): must_be(base_by_clause, ByClause), then
\* ByClause.__init__(self, base_by_clause.by, base_by_clause.convert)
NegativeByClause(base) ==
    IF base.kind # "value" THEN base
    ELSE IF base.val.kind \in {"ByClause", "NegativeByClause"}
      THEN Gave([kind |-> "NegativeByClause", by |-> base.val.by,
                 convert |-> base.val.convert])
      ELSE Raised("ValueError")

\* ByDict.__getitem__
RECURSIVE GetItem(_, _)
GetItem(reg, item) ==
    IF IsString(item) /\ StartsWith(item, negative_prefix)
      THEN NegativeByClause(GetItem(reg, StripPrefix(item, negative_prefix)))
    ELSE IF item \in DOMAIN reg THEN Gave(reg[item])
    ELSE Raised("KeyError")

\* the prefix is not tested
SetItemUnguarded(reg, key, value) ==
    [ reg |-> [k \in DOMAIN reg \cup {key} |->
                  IF k = key THEN value ELSE reg[k]],
      out |-> Gave(NoneValue) ]

\* ByDict.__setitem__: the registry after the write, and what the write gave
SetItem(reg, key, value) ==
    IF IsString(key) /\ StartsWith(key, negative_prefix)
      THEN [reg |-> reg, out |-> Raised("ValueError")]
      ELSE [ reg |-> [k \in DOMAIN reg \cup {key} |->
                         IF k = key THEN value ELSE reg[k]],
             out |-> Gave(NoneValue) ]

\* the attributes of the class ByDict: an attribute read finds them without
\* __getattr__ being called
ClassAttrs == { NameNegativePrefix }

\* By.item: the class attribute, else ByDict.__getattr__, `return self[item]`
GetAttr(reg, item) ==
    IF item \in ClassAttrs THEN Gave(PrefixValue) ELSE GetItem(reg, item)

\* ByDict.__setattr__: `self[key] = value`
SetAttr(reg, key, value) == SetItem(reg, key, value)

\* By = ByDict(); By[None] = None; the names of selenium's By
InitialRegistry ==
    [k \in {NoneKey, NameID} |->
        IF k = NoneKey THEN NoneValue ELSE ByClause("id", "identity")]

NoAccess == [op |-> "none", key |-> NoneKey, value |-> NoneValue]

\* ------------------------------------- Browser.__init__, Browser.quit
\* the attributes of the class Browser
ClassBrowser ==
    [ executable_path |-> "/usr/local/bin/chromedriver",
      app_host |-> "localhost",
      app_port |-> 5000 ]

\* where the driver saves downloads when it is started without options
DriverDownloads == "the driver's own download directory"

\* what a call gave, or what the driver's quit did: it returned, or it raised
\* a failure of class kind (errno is e.reason.errno of a URLError)
Done == [kind |-> "done", errno |-> 0]
Fault(kind, errno) == [kind |-> kind, errno |-> errno]

\* only errno 61 is taken for a closed session
QuitOutcomeOnly61(u) ==
    IF u.kind = "URLError" /\ u.errno = 61 THEN Done ELSE u

\* Browser.quit around super(Browser, self).quit(): `except URLError as e:
\* if e.reason.errno == 61 or e.reason.errno == 111: pass / else: raise`
QuitOutcome(u) ==
    IF u.kind = "URLError" /\ (u.errno = 61 \/ u.errno = 111) THEN Done ELSE u

\* what the driver's quit does: on a closed session the connection is
\* refused (errno 61 or 111); on an open one it returns or fails otherwise
DriverQuit(session) ==
    IF session = "closed"
      THEN { Fault("URLError", 61), Fault("URLError", 111) }
      ELSE { Done, Fault("URLError", 110), Fault("WebDriverException", 0) }

\* ------------------------------------------- Browser.fill, _fill
\* Texts are tuples of characters.
Texts == { << "a" >>, << "a", "b" >>, << "b" >> }

\* the attribute has to be the text
ContainsWhole(needle, hay) == needle = hay

\* `needle in hay` for two strings
Contains(needle, hay) ==
    \E i \in 0..Len(hay) :
        /\ i + Len(needle) <= Len(hay)
        /\ SubSeq(hay, i + 1, i + Len(needle)) = needle

\* `if check_against is None: check_against = text`
CheckAgainst(args) ==
    IF args.check_against = None THEN args.text ELSE args.check_against[1]

NoFill ==
    [ ok |-> TRUE, text |-> << >>, check |-> FALSE, check_against |-> None,
      empty |-> FALSE ]

\* ------------------------------------------------------------------ state
VARIABLES
    timeout, interval,            \* decorator configuration (closure of retry)
    now,                          \* the clock, time()
    pc,                           \* position of the wrapper
    retry_timeout, retry_interval, prep, end_time,   \* locals of wrapper
    args, kwargs,                 \* what wrapper passes on: f(*args, **kwargs)
    caught,                       \* exception being handled
    result,                       \* what the caller got: a value or a failure
    \* history
    invocations, ovTimeout, ovInterval, start_time, minDur, prevOv,
    callerArgs, callerKwargs,     \* what the caller passed to wrapper
    attempts, preps, calls, sleepLog, nTransient, nPrepFail, lastOp,
    lastRaised, prev,
    \* Browser.click: arguments, position in the body, driver interactions
    argsOk, wait_for, wait_for_by, cpos, return_value, clicks,
    \* the frame of the retry wrapper around wait_for_by.wait
    w_pc, w_end_time, w_attempts, w_caught, waitRaised, w_lookup,
    \* the alerts the page shows on the current attempt of wait_for_success
    screen,
    \* Browser.navigate: its argument, its position, the title read by goto,
    \* what goto gave navigate and what navigate gave its caller
    to, npos, page_title, goto_result, nresult,
    \* the locator registry By, the last access to it and what it gave
    registry, reg_op, reg_result,
    \* the Browser objects made so far, the explicit calls of quit made, the
    \* objects whose exit hook has run, and the last call on a Browser
    \* object: which object, what the driver's quit did, what the call gave
    instances, quits, exited, b_self, underlying, b_result,
    \* Browser.fill: its arguments, its position, the calls made on the
    \* driver and the element, the value of send_keys, the attribute read,
    \* and what fill gave its caller
    f_args, f_pos, f_log, f_value, f_attr, f_result,
    \* Browser.text_is_present: the text asked for, position, the body text
    \* the driver gave, the value returned, the failure raised
    t_text, t_pos, body, present, t_raised

vars == << timeout, interval, now, pc, retry_timeout, retry_interval, prep,
           end_time, args, kwargs, callerArgs, callerKwargs, caught, result, invocations, ovTimeout, ovInterval,
           start_time, minDur, prevOv, attempts, preps, calls, sleepLog,
           nTransient, nPrepFail, lastOp, lastRaised, prev,
           argsOk, wait_for, wait_for_by, cpos, return_value, clicks,
           w_pc, w_end_time, w_attempts, w_caught, waitRaised, w_lookup,
           screen, to, npos, page_title, goto_result, nresult,
           registry, reg_op, reg_result,
           instances, quits, exited, b_self, underlying, b_result,
           f_args, f_pos, f_log, f_value, f_attr, f_result,
           t_text, t_pos, body, present, t_raised >>

config == << timeout, interval >>
locals == << retry_timeout, retry_interval, prep, end_time, args, kwargs >>
clickargs == << argsOk, wait_for, wait_for_by >>
clickbody == << cpos, return_value, clicks >>
waitframe == << w_pc, w_end_time, w_attempts, w_caught, waitRaised,
               w_lookup >>
clickvars == << clickargs, clickbody, waitframe >>

\* the state of the facade operations other than click
navvars == << to, npos, page_title, goto_result, nresult >>
regvars == << registry, reg_op, reg_result >>

\* the state of the objects that are not driven by the retry wrapper
objvars == << instances, quits, exited, b_self, underlying, b_result >>
fillvars == << f_args, f_pos, f_log, f_value, f_attr, f_result >>
standalone == << regvars, objvars, fillvars >>
tipvars == << t_text, t_pos, body, present, t_raised >>

facade == << screen, navvars, standalone, tipvars >>

\* no facade operation is running
FacadeIdle ==
    /\ screen = {}
    /\ to = << >> /\ npos = "idle" /\ page_title = "none"
    /\ goto_result = NoOutcome /\ nresult = NoOutcome
    /\ registry = InitialRegistry
    /\ reg_op = NoAccess /\ reg_result = Gave(NoneValue)
    /\ instances = << >> /\ quits = 0 /\ exited = {}
    /\ b_self = 0 /\ underlying = Done /\ b_result = Done
    /\ f_args = NoFill /\ f_pos = "idle" /\ f_log = << >>
    /\ f_value = 0 /\ f_attr = None /\ f_result = NoOutcome
    /\ t_text = << >> /\ t_pos = "idle" /\ body = << >>
    /\ present = None /\ t_raised = NoOutcome

inputs == << ovTimeout, ovInterval, start_time, minDur, prevOv,
            callerArgs, callerKwargs >>

\* the variables of the retry wrapper
retryframe == << config, now, pc, locals, caught, result, invocations, inputs,
                 attempts, preps, calls, sleepLog, nTransient, nPrepFail,
                 lastOp, lastRaised, prev >>

\* a retry_timeout below zero: the deadline lies before the invocation
NegativeTimeout == -1

\* the timeouts a caller passes as retry_timeout
\* the positional arguments of a call, and its keyword arguments as a set of
\* << name, value >> entries (a hook is the value 1)
NoArgs == << >>
NoKwargs == {}
ArgLists == { NoArgs, << 7 >> }
OtherKwargs == { NoKwargs, { << "hover_time", 2 >> } }

\* the names the wrapper reserves
Reserved == { "retry_timeout", "retry_interval", "prep" }

\* **kwargs as wrapper receives it: the caller's other keywords and the
\* reserved names the caller passed
CallerKwargs(kw, ot, oi, p) ==
    kw \cup (IF ot = None THEN {} ELSE { << "retry_timeout", ot[1] >> })
       \cup (IF oi = None THEN {} ELSE { << "retry_interval", oi[1] >> })
       \cup (IF p THEN { << "prep", 1 >> } ELSE {})

\* kwargs.get(name, default) three times: the names stay in kwargs
PoppedGet(kw) == kw

\* kwargs after the three kwargs.pop(name, default): the reserved names are
\* removed, every other entry is kept
Popped(kw) == { e \in kw : e[1] \notin Reserved }

Timeouts == {NegativeTimeout} \cup 0..MaxTimeout
Intervals == 0..MaxInterval

\* no click under way
ClickIdle ==
    /\ argsOk = TRUE /\ wait_for = FALSE /\ wait_for_by = "None"
    /\ cpos = "start" /\ return_value = 0
    /\ clicks = 0
    /\ w_pc = "idle" /\ w_end_time = 0 /\ w_attempts = 0
    /\ w_caught = NoOutcome /\ waitRaised = NoOutcome
    /\ w_lookup = "none"

\* the click frame is gone
ClickReset ==
    /\ argsOk' = TRUE /\ wait_for' = FALSE /\ wait_for_by' = "None"
    /\ cpos' = "start" /\ return_value' = 0
    /\ clicks' = 0
    /\ w_pc' = "idle" /\ w_end_time' = 0 /\ w_attempts' = 0
    /\ w_caught' = NoOutcome /\ waitRaised' = NoOutcome
    /\ w_lookup' = "none"

\* the state before the first invocation of an operation decorated with
\* retry(timeout=t)
InitWith(t) ==
    /\ timeout = t
    /\ interval = DefaultInterval
    /\ ClickIdle
    /\ FacadeIdle
    /\ now = 0
    /\ pc = "idle"
    /\ retry_timeout = 0 /\ retry_interval = 0
    /\ prep = FALSE /\ end_time = 0
    /\ args = NoArgs /\ kwargs = NoKwargs
    /\ callerArgs = NoArgs /\ callerKwargs = NoKwargs
    /\ caught = NoOutcome /\ result = NoOutcome
    /\ invocations = 0
    /\ ovTimeout = None /\ ovInterval = None
    /\ start_time = 0 /\ minDur = 0 /\ prevOv = FALSE
    /\ attempts = 0 /\ preps = 0 /\ calls = 0
    /\ sleepLog = << >>
    /\ nTransient = 0 /\ nPrepFail = 0
    /\ lastOp = NoOutcome /\ lastRaised = NoOutcome
    /\ prev = "none"

Init == InitWith(ExampleTimeout)

\* wrapper(*args, **kwargs) up to the loop: pop the reserved names, read the
\* clock once and compute the deadline.  ot/oi are the overrides the caller
\* passes (None: not passed), p says whether a prep hook is passed, md is the
\* least time a call of this invocation takes; more says whether the
\* behaviour is followed beyond its first invocation (invocations counts
\* 0, 1, 2 for two or more).
EnterWith(a, kw, ot, oi, p, md, more) ==
    /\ pc = "idle"
    /\ invocations = 0 \/ (more /\ now <= MaxStart)
    /\ invocations' = IF invocations = 0 THEN 1 ELSE 2
    /\ callerArgs' = a
    /\ callerKwargs' = CallerKwargs(kw, ot, oi, p)
    /\ args' = a
    /\ kwargs' = Popped(callerKwargs')
    /\ retry_timeout' = Effective(ot, timeout)
    /\ retry_interval' = Effective(oi, interval)
    /\ prep' = p
    /\ end_time' = now + retry_timeout'
    /\ ovTimeout' = ot /\ ovInterval' = oi
    /\ start_time' = now /\ minDur' = md
    /\ prevOv' = (invocations > 0 /\ (ovTimeout # None \/ ovInterval # None))
    /\ attempts' = 1 /\ preps' = 0 /\ calls' = 0
    /\ sleepLog' = << >> /\ nTransient' = 0 /\ nPrepFail' = 0
    /\ lastOp' = NoOutcome /\ lastRaised' = NoOutcome
    /\ caught' = NoOutcome /\ result' = NoOutcome
    /\ prev' = "invoke"
    /\ pc' = "try"
    /\ UNCHANGED << config, now, facade >>

\* an invocation whose other arguments the model does not follow
Enter(ot, oi, p, md, more) == EnterWith(NoArgs, NoKwargs, ot, oi, p, md, more)

\* an invocation of a wrapped operation that the model treats as one call
Invoke(ot, oi, p, md, more) ==
    /\ Enter(ot, oi, p, md, more)
    /\ UNCHANGED clickvars

\* the hook test dropped: the operation is called without the hook
SkipPrepAlways ==
    /\ pc = "try"
    /\ pc' = "call"
    /\ UNCHANGED << clickvars, facade, config, now, locals, caught, result, invocations, inputs,
                    attempts, preps, calls, sleepLog, nTransient, nPrepFail,
                    lastOp, lastRaised, prev >>

\* `if prep is not None:` is false
SkipPrep ==
    /\ pc = "try" /\ prep = FALSE
    /\ pc' = "call"
    /\ UNCHANGED << clickvars, facade, config, now, locals, caught, result, invocations, inputs,
                    attempts, preps, calls, sleepLog, nTransient, nPrepFail,
                    lastOp, lastRaised, prev >>

\* prep() returns normally after d ticks
PrepOk(d) ==
    /\ pc = "try" /\ prep = TRUE
    /\ preps' = preps + 1
    /\ now' = now + d
    /\ prev' = "prep"
    /\ pc' = "call"
    /\ UNCHANGED << clickvars, facade, config, locals, caught, result, invocations, inputs,
                    attempts, calls, sleepLog, nTransient, nPrepFail, lastOp, lastRaised >>

\* prep() called before the try block: its failure leaves the wrapper at once
PrepFailOutsideTry(k, m, d) ==
    /\ pc = "try" /\ prep = TRUE
    /\ preps' = preps + 1
    /\ now' = now + d
    /\ prev' = "prepfail"
    /\ result' = Failure(k, m, attempts)
    /\ lastRaised' = result'
    /\ nPrepFail' = nPrepFail + 1
    /\ pc' = "raised"
    /\ UNCHANGED << clickvars, facade, config, locals, caught, invocations, inputs, attempts,
                    calls, sleepLog, nTransient, lastOp >>

\* prep() raises a failure of class k after d ticks
PrepFail(k, m, d) ==
    /\ pc = "try" /\ prep = TRUE
    /\ preps' = preps + 1
    /\ now' = now + d
    /\ prev' = "prepfail"
    /\ caught' = Failure(k, m, attempts)
    /\ lastRaised' = caught'
    /\ nPrepFail' = nPrepFail + 1
    /\ pc' = "except"
    /\ UNCHANGED << clickvars, facade, config, locals, result, invocations, inputs, attempts,
                    calls, sleepLog, nTransient, lastOp >>

\* a result that arrives after the deadline is discarded for a timeout
CallOkInTime(v, d) ==
    /\ pc = "call"
    /\ calls' = calls + 1
    /\ now' = now + d
    /\ prev' = "call"
    /\ lastOp' = Returned(v, attempts)
    /\ IF DeadlinePassed(now', end_time)
         THEN /\ result' = Failure("TimeoutError", <<"timed out">>, attempts)
              /\ pc' = "raised"
         ELSE /\ result' = ReturnValue(Returned(v, attempts))
              /\ pc' = "returned"
    /\ UNCHANGED << clickvars, facade, config, locals, caught, invocations, inputs, attempts,
                    preps, sleepLog, nTransient, nPrepFail, lastRaised >>

\* f(*args, **kwargs) returns v after d ticks; the wrapper returns it
CallOk(v, d) ==
    /\ pc = "call"
    /\ calls' = calls + 1
    /\ now' = now + d
    /\ prev' = "call"
    /\ lastOp' = Returned(v, attempts)
    /\ result' = ReturnValue(Returned(v, attempts))
    /\ pc' = "returned"
    /\ UNCHANGED << clickvars, facade, config, locals, caught, invocations, inputs, attempts,
                    preps, sleepLog, nTransient, nPrepFail, lastRaised >>

\* f(*args, **kwargs) raises a failure of class k after d ticks
CallFail(k, m, d) ==
    /\ pc = "call"
    /\ calls' = calls + 1
    /\ now' = now + d
    /\ prev' = "call"
    /\ caught' = Failure(k, m, attempts)
    /\ lastOp' = caught'
    /\ lastRaised' = caught'
    /\ nTransient' = IF k \in element_exceptions THEN nTransient + 1
                                                 ELSE nTransient
    /\ pc' = "except"
    /\ UNCHANGED << clickvars, facade, config, locals, result, invocations, inputs, attempts,
                    preps, sleepLog, nPrepFail >>

\* the failure is not an instance of element_exceptions: no handler, it
\* leaves the wrapper
Propagate ==
    /\ pc = "except" /\ ~Transient(caught.kind)
    /\ result' = caught
    /\ caught' = NoOutcome
    /\ pc' = "raised"
    /\ UNCHANGED << clickvars, facade, config, now, locals, invocations, inputs, attempts, preps,
                    calls, sleepLog, nTransient, nPrepFail, lastOp, lastRaised, prev >>

\* handler, `if time() > end_time: raise`
Timeout ==
    /\ pc = "except" /\ Transient(caught.kind)
    /\ DeadlinePassed(now, end_time)
    /\ result' = Reraised(caught)
    /\ caught' = NoOutcome
    /\ pc' = "raised"
    /\ UNCHANGED << clickvars, facade, config, now, locals, invocations, inputs, attempts, preps,
                    calls, sleepLog, nTransient, nPrepFail, lastOp, lastRaised, prev >>

\* a wait that grows with the number of attempts made (linear backoff)
SleepBackoff ==
    /\ pc = "except" /\ Transient(caught.kind)
    /\ ~DeadlinePassed(now, end_time)
    /\ attempts < MaxAttempts(retry_timeout)
    /\ now' = now + retry_interval * attempts
    /\ sleepLog' = Append(sleepLog, retry_interval * attempts)
    /\ prev' = "sleep"
    /\ attempts' = attempts + 1
    /\ caught' = NoOutcome
    /\ lastOp' = NoOutcome /\ lastRaised' = NoOutcome
    /\ pc' = "try"
    /\ UNCHANGED << clickvars, facade, config, locals, result, invocations, inputs, preps, calls,
                    nTransient, nPrepFail >>

\* handler, deadline not passed: sleep(retry_interval), then loop
Sleep ==
    /\ pc = "except" /\ Transient(caught.kind)
    /\ ~DeadlinePassed(now, end_time)
    /\ attempts < MaxAttempts(retry_timeout)
    /\ now' = now + retry_interval
    /\ sleepLog' = Append(sleepLog, retry_interval)
    /\ prev' = "sleep"
    /\ attempts' = attempts + 1
    /\ caught' = NoOutcome
    /\ lastOp' = NoOutcome /\ lastRaised' = NoOutcome
    /\ pc' = "try"
    /\ UNCHANGED << clickvars, facade, config, locals, result, invocations, inputs, preps, calls,
                    nTransient, nPrepFail >>

\* the caller has the outcome and the wrapper's frame is gone; the wrapped
\* operation can be invoked again
Finish ==
    /\ pc \in {"returned", "raised"}
    /\ pc' = "idle"
    /\ retry_timeout' = 0 /\ retry_interval' = 0
    /\ prep' = FALSE /\ end_time' = 0
    /\ args' = NoArgs /\ kwargs' = NoKwargs
    /\ callerArgs' = NoArgs /\ callerKwargs' = NoKwargs
    /\ caught' = NoOutcome /\ result' = NoOutcome
    /\ attempts' = 0 /\ preps' = 0 /\ calls' = 0
    /\ sleepLog' = << >> /\ nTransient' = 0 /\ nPrepFail' = 0
    /\ lastOp' = NoOutcome /\ lastRaised' = NoOutcome
    /\ prev' = "none"
    /\ start_time' = 0 /\ minDur' = 0
    /\ ClickReset
    /\ UNCHANGED << config, now, invocations, ovTimeout, ovInterval, prevOv,
                    facade >>

\* the steps of an invocation once it is under way
Step ==
    \/ SkipPrep
    \/ \E d \in minDur..MaxDur : PrepOk(d)
    \/ \E k \in Kinds, m \in Msgs, d \in minDur..MaxDur : PrepFail(k, m, d)
    \/ \E v \in Values, d \in minDur..MaxDur : CallOk(v, d)
    \/ \E k \in Kinds, m \in Msgs, d \in minDur..MaxDur : CallFail(k, m, d)
    \/ Propagate
    \/ Timeout
    \/ Sleep
    \/ Finish

Overrides(S) == {Some(x) : x \in S} \cup {None}

\* one invocation of the wrapped operation
Next ==
    \/ \E ot \in Overrides(Timeouts), oi \in Overrides(Intervals),
          p \in BOOLEAN, md \in 0..MaxDur : Invoke(ot, oi, p, md, FALSE)
    \/ Step

\* invocations of the wrapped operation, without a hook, one after the other
NextSeq ==
    \/ \E ot \in Overrides(Timeouts), oi \in Overrides(Intervals),
          md \in 0..MaxDur :
             Invoke(ot, oi, FALSE, md, TRUE)
    \/ SkipPrep
    \/ \E v \in Values, d \in minDur..MaxDur : CallOk(v, d)
    \/ \E k \in Kinds, m \in Msgs, d \in minDur..MaxDur : CallFail(k, m, d)
    \/ Propagate
    \/ Timeout
    \/ Sleep
    \/ Finish

Spec == Init /\ [][Next]_vars

\* one invocation with positional and keyword arguments of the caller's
\* choice, with or without a hook, whose calls take no time
InvokeWith(a, kw, ot, oi, p) ==
    /\ EnterWith(a, kw, ot, oi, p, 0, FALSE)
    /\ UNCHANGED clickvars

NextArgs ==
    \/ \E a \in ArgLists, kw \in OtherKwargs,
          ot \in Overrides(Timeouts), oi \in Overrides(Intervals),
          p \in BOOLEAN : InvokeWith(a, kw, ot, oi, p)
    \/ SkipPrep
    \/ PrepOk(0)
    \/ \E k \in Kinds, m \in Msgs : PrepFail(k, m, 0)
    \/ \E v \in Values : CallOk(v, 0)
    \/ \E k \in Kinds, m \in Msgs : CallFail(k, m, 0)
    \/ Propagate
    \/ Timeout
    \/ Sleep
    \/ Finish

ArgSpec == Init /\ [][NextArgs]_vars

SeqSpec == Init /\ [][NextSeq]_vars

\* Every call the wrapper makes returns or raises, and the interpreter keeps
\* running the wrapper: a step that can be taken is eventually taken.
LiveSpec == Init /\ [][Next]_vars /\ WF_vars(Next)

\* ------------------------------------------------------- Browser.click
\* @retry(timeout=15): 15 s in ticks
ClickTimeout == 150

\* @retry(timeout=5) of ByClause.wait and NegativeByClause.wait, in ticks
WaitTimeout == 50

\* _scroll_to sleeps 0.25 s and hover_on sleeps hover_time (0.1 s): the whole
\* ticks a hover takes at least
HoverSleep == 3

\* How long a find of the driver takes: no time, or SlowCall ticks.
DriverDurs == {0, SlowCall}

\* The classes of the failures the driver's find, hover and click raise, and
\* the ValueError of a value transform.
DriverKinds ==
    { "NoSuchElementException", "ElementNotVisibleException",
      "InvalidElementStateException", "ValueError", "WebDriverException" }

\* ByClause.find: a NoSuchElementException gets the element and the strategy
\* appended to its message and is raised again; other failures pass as raised.
FindFailure(k, m, a) ==
    Failure(k, IF k = "NoSuchElementException"
                 THEN m \o <<"(Element, By)">> ELSE m, a)

\* WaitFailedError(message, cause) / DontRetryError(message, cause): the
\* message is "<message>, caused by <repr(cause)>", cause is kept.
Wrapped(k, message, e, a) ==
    [ kind |-> k,
      msg |-> <<message, ", caused by ", e.kind>> \o e.msg,
      att |-> a, val |-> 0,
      cause |-> [kind |-> e.kind, msg |-> e.msg, att |-> e.att] ]

\* the wait failure leaves click as it came
WaitErrorUnwrapped(e, a) == e

\* the two handlers around wait_for_by.wait in click, in their order; a
\* failure neither matches leaves click unchanged
WaitError(e, a) ==
    IF e.kind \in cant_see_exceptions
      THEN Wrapped("WaitFailedError", "Wait failed", e, a)
    ELSE IF e.kind \in element_exceptions
      THEN Wrapped("DontRetryError", "Wait failed", e, a)
    ELSE e

frame == << config, locals, invocations, inputs, attempts, preps, sleepLog,
            nPrepFail, facade >>

\* the body of click raises f: the retry wrapper's try block is left
RaiseInBody(f) ==
    /\ caught' = f
    /\ lastOp' = f /\ lastRaised' = f
    /\ nTransient' = IF f.kind \in element_exceptions THEN nTransient + 1
                                                      ELSE nTransient
    /\ cpos' = "start"
    /\ pc' = "except"

\* the body of click returns v to the wrapper, which returns it
ReturnFromBody(v) ==
    /\ lastOp' = Returned(v, attempts)
    /\ result' = ReturnValue(Returned(v, attempts))
    /\ cpos' = "start"
    /\ pc' = "returned"

\* click(what, by, hover_time, wait_for, wait_for_by, retry_timeout=ot,
\* retry_interval=oi): ok says whether the arguments have the types of the
\* contract, wf whether wait_for is given, wfb what wait_for_by is.
ClickInvoke(ot, oi, ok, wf, wfb) ==
    /\ Enter(ot, oi, FALSE, 0, FALSE)
    /\ argsOk' = ok /\ wait_for' = wf /\ wait_for_by' = wfb
    /\ UNCHANGED << clickbody, waitframe >>

\* the five must_be of click
ClickContract ==
    /\ pc = "call" /\ cpos = "start"
    /\ calls' = calls + 1
    /\ prev' = "call"
    /\ IF argsOk
         THEN /\ cpos' = "find"
              /\ UNCHANGED << pc, caught, lastOp, lastRaised, nTransient >>
         ELSE RaiseInBody(must_be(attempts))
    /\ UNCHANGED << frame, now, result, clickargs, return_value, clicks, waitframe >>

\* element = by.find(what, self) finds the element
ClickFindOk(d) ==
    /\ pc = "call" /\ cpos = "find"
    /\ now' = now + d
    /\ cpos' = "hover"
    /\ UNCHANGED << frame, pc, caught, result, calls, nTransient, lastOp,
                    lastRaised, prev, clickargs, return_value, clicks,
                    waitframe >>

\* element = by.find(what, self) raises
ClickFindFail(k, m, d) ==
    /\ pc = "call" /\ cpos = "find"
    /\ now' = now + d
    /\ RaiseInBody(FindFailure(k, m, attempts))
    /\ UNCHANGED << frame, result, calls, prev, clickargs, return_value,
                    clicks, waitframe >>

\* self.hover_on(element, hover_time) returns
ClickHoverOk ==
    /\ pc = "call" /\ cpos = "hover"
    /\ now' = now + HoverSleep
    /\ cpos' = "click"
    /\ UNCHANGED << frame, pc, caught, result, calls, nTransient, lastOp,
                    lastRaised, prev, clickargs, return_value, clicks,
                    waitframe >>

\* self.hover_on(element, hover_time) raises
ClickHoverFail(k, m) ==
    /\ pc = "call" /\ cpos = "hover"
    /\ UNCHANGED now
    /\ RaiseInBody(Failure(k, m, attempts))
    /\ UNCHANGED << frame, result, calls, prev, clickargs, return_value,
                    clicks, waitframe >>

\* return_value = element.click() returns v; without wait_for click returns
ClickElementOk(v) ==
    /\ pc = "call" /\ cpos = "click"
    /\ clicks' = clicks + 1
    /\ return_value' = v
    /\ UNCHANGED now
    /\ IF wait_for
         THEN /\ cpos' = "wait"
              /\ UNCHANGED << pc, result, lastOp >>
         ELSE ReturnFromBody(v)
    /\ UNCHANGED << frame, caught, calls, nTransient, lastRaised, prev,
                    clickargs, waitframe >>

\* return_value = element.click() raises
ClickElementFail(k, m) ==
    /\ pc = "call" /\ cpos = "click"
    /\ UNCHANGED now
    /\ RaiseInBody(Failure(k, m, attempts))
    /\ UNCHANGED << frame, result, calls, prev, clickargs, return_value,
                    clicks, waitframe >>

\* wait_for_by.wait(...) with wait_for_by None: AttributeError, which neither
\* handler of click matches
WaitMissing ==
    /\ pc = "call" /\ cpos = "wait" /\ wait_for_by = "None"
    /\ RaiseInBody(Failure("AttributeError", <<"no attribute 'wait'">>,
                           attempts))
    /\ UNCHANGED << frame, now, result, calls, prev, clickargs, return_value,
                    clicks, waitframe >>

\* wait_for_by.wait(wait_for, self): the retry wrapper of wait, without
\* overrides and without a hook, computes its deadline; the two must_be of
\* wait hold for a string and a browser
WaitEnter ==
    /\ pc = "call" /\ cpos = "wait" /\ wait_for_by # "None"
    /\ w_pc = "idle"
    /\ w_end_time' = now + Effective(None, WaitTimeout)
    /\ w_attempts' = 1
    /\ w_pc' = "call"
    /\ UNCHANGED << frame, now, pc, caught, result, calls, nTransient, lastOp,
                    lastRaised, prev, clickargs, clickbody, w_caught,
                    waitRaised, w_lookup >>

\* wait returns to click, which returns return_value
WaitReturns ==
    /\ ReturnFromBody(return_value)
    /\ w_pc' = "idle" /\ w_end_time' = 0 /\ w_attempts' = 0
    /\ w_caught' = NoOutcome
    /\ UNCHANGED << caught, lastRaised, nTransient, waitRaised >>

\* wait raises f inside its retry wrapper
WaitRaises(f) ==
    /\ w_caught' = f
    /\ w_pc' = "except"
    /\ UNCHANGED << pc, cpos, caught, result, lastOp, lastRaised, nTransient,
                    w_end_time, w_attempts, waitRaised >>

\* an attempt of wait whose find finds the element: ByClause.wait returns it,
\* NegativeByClause.wait raises ElementStillThereError
WaitFindOk(d) ==
    /\ pc = "call" /\ cpos = "wait" /\ w_pc = "call"
    /\ now' = now + d
    /\ w_lookup' = "found"
    /\ IF wait_for_by = "By"
         THEN WaitReturns
         ELSE WaitRaises(Failure("ElementStillThereError", << >>, w_attempts))
    /\ UNCHANGED << frame, calls, prev, clickargs, return_value, clicks >>

\* an attempt of wait whose find raises: ByClause.wait raises it,
\* NegativeByClause.wait returns when it is a cannot-see failure
WaitFindFail(k, m, d) ==
    /\ pc = "call" /\ cpos = "wait" /\ w_pc = "call"
    /\ now' = now + d
    /\ w_lookup' = k
    /\ IF wait_for_by = "NotBy" /\ k \in cant_see_exceptions
         THEN WaitReturns
         ELSE WaitRaises(FindFailure(k, m, w_attempts))
    /\ UNCHANGED << frame, calls, prev, clickargs, return_value, clicks >>

\* the failure leaves the retry wrapper of wait and reaches click's handlers
WaitLeaves ==
    /\ waitRaised' = w_caught
    /\ w_caught' = NoOutcome
    /\ w_pc' = "idle" /\ w_end_time' = 0 /\ w_attempts' = 0
    /\ cpos' = "handle"
    /\ UNCHANGED << frame, now, pc, caught, result, calls, nTransient, lastOp,
                    lastRaised, prev, clickargs, return_value, clicks,
                    w_lookup >>

\* wait's wrapper: the failure is not an instance of element_exceptions
WaitPropagate ==
    /\ pc = "call" /\ w_pc = "except" /\ ~Transient(w_caught.kind)
    /\ WaitLeaves

\* wait's wrapper: `if time() > end_time: raise`
WaitTimesOut ==
    /\ pc = "call" /\ w_pc = "except" /\ Transient(w_caught.kind)
    /\ DeadlinePassed(now, w_end_time)
    /\ WaitLeaves

\* wait's wrapper: sleep(retry_interval), then loop
WaitSleep ==
    /\ pc = "call" /\ w_pc = "except" /\ Transient(w_caught.kind)
    /\ ~DeadlinePassed(now, w_end_time)
    /\ w_attempts < MaxAttempts(WaitTimeout)
    /\ now' = now + Effective(None, DefaultInterval)
    /\ w_attempts' = w_attempts + 1
    /\ w_caught' = NoOutcome
    /\ w_pc' = "call"
    /\ UNCHANGED << frame, pc, caught, result, calls, nTransient, lastOp,
                    lastRaised, prev, clickargs, clickbody, w_end_time,
                    waitRaised, w_lookup >>

\* `except cant_see_exceptions as e` / `except element_exceptions as e`
ClickHandle ==
    /\ pc = "call" /\ cpos = "handle"
    /\ RaiseInBody(WaitError(waitRaised, attempts))
    /\ UNCHANGED << frame, now, result, calls, prev, clickargs, return_value,
                    clicks, waitframe >>

ClickBody ==
    \/ ClickContract
    \/ \E d \in DriverDurs : ClickFindOk(d)
    \/ \E k \in DriverKinds, m \in Msgs, d \in DriverDurs :
          ClickFindFail(k, m, d)
    \/ ClickHoverOk
    \/ \E k \in DriverKinds, m \in Msgs : ClickHoverFail(k, m)
    \/ \E v \in Values : ClickElementOk(v)
    \/ \E k \in DriverKinds, m \in Msgs : ClickElementFail(k, m)
    \/ WaitMissing
    \/ WaitEnter
    \/ \E d \in DriverDurs : WaitFindOk(d)
    \/ \E k \in DriverKinds, m \in Msgs, d \in DriverDurs :
          WaitFindFail(k, m, d)
    \/ WaitPropagate
    \/ WaitTimesOut
    \/ WaitSleep
    \/ ClickHandle

ClickNext ==
    \/ \E ot \in Overrides(Timeouts), oi \in Overrides(Intervals),
          ok \in BOOLEAN, wf \in BOOLEAN, wfb \in {"By", "NotBy", "None"} :
             ClickInvoke(ot, oi, ok, wf, wfb)
    \/ SkipPrep
    \/ ClickBody
    \/ Propagate
    \/ Timeout
    \/ Sleep
    \/ Finish

ClickSpec == InitWith(ClickTimeout) /\ [][ClickNext]_vars

\* ------------------------------------------------ Browser.wait_for_success
\* @retry without arguments: timeout=30, 30 s in ticks
DefaultTimeout == 300

\* the alerts a page can show
Alerts == { "warning", "danger", "success" }

\* the alert the first two lookups of wait_for_success find, "none" when they
\* find neither
FirstAlertDangerFirst(scr) ==
    IF "danger" \in scr THEN "danger"
    ELSE IF "warning" \in scr THEN "warning" ELSE "none"

FirstAlert(scr) ==
    IF "warning" \in scr THEN "warning"
    ELSE IF "danger" \in scr THEN "danger" ELSE "none"

\* FrontEndError('Warning alert is on screen') / ('Danger alert is on screen')
FrontEndError(alert, a) ==
    Failure("FrontEndError",
            IF alert = "warning" THEN <<"Warning alert is on screen">>
                                 ELSE <<"Danger alert is on screen">>, a)

\* wait_for_success(retry_timeout=ot, retry_interval=oi)
WfsInvoke(ot, oi) ==
    /\ Enter(ot, oi, FALSE, 0, FALSE)
    /\ UNCHANGED clickvars

\* the lookup of '.alertContainer .alert-warning' on the page as it is now,
\* scr; not found is one of not_there_exceptions and is passed over
WfsWarning(scr, d) ==
    /\ pc = "call" /\ cpos = "start"
    /\ screen' = scr
    /\ calls' = calls + 1
    /\ prev' = "call"
    /\ now' = now + d
    /\ IF FirstAlert(scr) = "warning"
         THEN RaiseInBody(FrontEndError("warning", attempts))
         ELSE /\ cpos' = "danger"
              /\ UNCHANGED << pc, caught, lastOp, lastRaised, nTransient >>
    /\ UNCHANGED << config, locals, invocations, inputs, attempts, preps,
                    sleepLog, nPrepFail, result, clickargs, return_value,
                    clicks, waitframe, navvars, standalone, tipvars >>

\* the lookup of '.alertContainer .alert-danger'
WfsDanger(d) ==
    /\ pc = "call" /\ cpos = "danger"
    /\ now' = now + d
    /\ IF FirstAlert(screen) = "danger"
         THEN RaiseInBody(FrontEndError("danger", attempts))
         ELSE /\ cpos' = "success"
              /\ UNCHANGED << pc, caught, lastOp, lastRaised, nTransient >>
    /\ UNCHANGED << frame, result, calls, prev, clickargs, return_value,
                    clicks, waitframe >>

\* the lookup of '.alertContainer .alert-success', outside any try block
WfsSuccess(m, d) ==
    /\ pc = "call" /\ cpos = "success"
    /\ now' = now + d
    /\ IF "success" \in screen
         THEN /\ cpos' = "close"
              /\ UNCHANGED << pc, caught, lastOp, lastRaised, nTransient >>
         ELSE RaiseInBody(Failure("NoSuchElementException", m, attempts))
    /\ UNCHANGED << frame, result, calls, prev, clickargs, return_value,
                    clicks, waitframe >>

\* alert = self.find_element_by_css_selector('.alert button.close') returns
WfsCloseFindOk ==
    /\ pc = "call" /\ cpos = "close"
    /\ cpos' = "closeclick"
    /\ UNCHANGED << frame, now, pc, caught, result, calls, nTransient, lastOp,
                    lastRaised, prev, clickargs, return_value, clicks,
                    waitframe >>

\* alert = self.find_element_by_css_selector('.alert button.close') raises
WfsCloseFindFail(k, m) ==
    /\ pc = "call" /\ cpos = "close"
    /\ RaiseInBody(Failure(k, m, attempts))
    /\ UNCHANGED << frame, now, result, calls, prev, clickargs, return_value,
                    clicks, waitframe >>

\* alert.click() returns, and wait_for_success returns None
WfsCloseClickOk ==
    /\ pc = "call" /\ cpos = "closeclick"
    /\ clicks' = clicks + 1
    /\ ReturnFromBody(0)
    /\ UNCHANGED << frame, now, caught, calls, nTransient, lastRaised, prev,
                    clickargs, return_value, waitframe >>

\* alert.click() raises
WfsCloseClickFail(k, m) ==
    /\ pc = "call" /\ cpos = "closeclick"
    /\ RaiseInBody(Failure(k, m, attempts))
    /\ UNCHANGED << frame, now, result, calls, prev, clickargs, return_value,
                    clicks, waitframe >>

WfsNext ==
    \/ \E ot \in Overrides(Timeouts), oi \in Overrides(Intervals) :
          WfsInvoke(ot, oi)
    \/ SkipPrep
    \/ \E scr \in SUBSET Alerts, d \in DriverDurs : WfsWarning(scr, d)
    \/ \E d \in DriverDurs : WfsDanger(d)
    \/ \E m \in Msgs, d \in DriverDurs : WfsSuccess(m, d)
    \/ WfsCloseFindOk
    \/ \E k \in DriverKinds, m \in Msgs : WfsCloseFindFail(k, m)
    \/ WfsCloseClickOk
    \/ \E k \in DriverKinds, m \in Msgs : WfsCloseClickFail(k, m)
    \/ Propagate
    \/ Timeout
    \/ Sleep
    \/ Finish

WfsSpec == InitWith(DefaultTimeout) /\ [][WfsNext]_vars

\* --------------------------------------------- Browser.goto / navigate
\* the titles a loaded page can have
Titles == { "404 Not Found", "Home", "500 Internal Server Error" }

\* what navigate is given: an AppPage, a value that is neither a page nor a
\* string, or a name; names are tuples of characters
AppPage == << "AppPage" >>
NotAPage == << "int" >>
NameHo == << "H", "o" >>
NameHi == << "H", "i" >>
Tos == { AppPage, NotAPage, Lower(NameHo), NameHo, NameHi }

\* the keys of self.pages, as given to the constructor: 'ho' and 'Hi'
Pages == { Lower(NameHo), NameHi }

\* the title is never looked at
GotoOutcomeAnyTitle(title, value) == Returned(value, 0)

\* goto after the driver's get returned value: `if page_title in
\* {'404 Not Found'}: raise NavigationError(page_title)`, else return value
GotoOutcome(title, value) ==
    IF title \in {"404 Not Found"}
      THEN Failure("NavigationError", <<title>>, 0)
      ELSE Returned(value, 0)

\* the wait failure leaves navigate as it came
NavWaitErrorUnchanged(e) == e

\* the handler around the wait in navigate: `except NoSuchElementException:
\* raise NavigationError("Expected element ... didn't show ...")`
NavWaitError(e) ==
    IF e.kind = "NoSuchElementException"
      THEN Failure("NavigationError",
                   <<"Expected element didn't show when navigating">>, e.att)
      ELSE e

\* navigate(to), to an AppPage with wait_for given or not
NavInvoke(t, wf, wfb) ==
    /\ npos = "idle" /\ pc = "idle" /\ nresult = NoOutcome
    /\ to' = t
    /\ wait_for' = wf /\ wait_for_by' = wfb
    /\ npos' = "contract"
    /\ UNCHANGED << retryframe, argsOk, clickbody, waitframe, screen, standalone, tipvars,
                    page_title, goto_result, nresult >>

\* must_be(to, "to", (AppPage, basestring)) and self.pages[to.lower()]
NavContract ==
    /\ npos = "contract"
    /\ IF to = NotAPage
         THEN /\ nresult' = must_be(0)
              /\ npos' = "raised"
         ELSE IF to # AppPage /\ Lower(to) \notin Pages
         THEN /\ nresult' = Failure("KeyError", <<"unknown">>, 0)
              /\ npos' = "raised"
         ELSE /\ npos' = "goto"
              /\ UNCHANGED nresult
    /\ UNCHANGED << retryframe, clickvars, screen, standalone, tipvars, to, page_title,
                    goto_result >>

\* goto: value = super(Browser, self).get(url) returns v
NavGetOk(v, d) ==
    /\ npos = "goto"
    /\ return_value' = v
    /\ now' = now + d
    /\ npos' = "title"
    /\ UNCHANGED << config, pc, locals, caught, result, invocations, inputs,
                    attempts, preps, calls, sleepLog, nTransient, nPrepFail,
                    lastOp, lastRaised, prev, clickargs, cpos, clicks,
                    waitframe, screen, standalone, tipvars, to, page_title, goto_result, nresult >>

\* goto: value = super(Browser, self).get(url) raises
NavGetFail(k, m) ==
    /\ npos = "goto"
    /\ goto_result' = Failure(k, m, 0)
    /\ nresult' = goto_result'
    /\ npos' = "raised"
    /\ UNCHANGED << retryframe, clickvars, screen, standalone, tipvars, to, page_title >>

\* goto: page_title = self.title, the test of the title, and navigate's
\* `if to.wait_for is not None`
NavTitle(t) ==
    /\ npos = "title"
    /\ page_title' = t
    /\ goto_result' = GotoOutcome(t, return_value)
    /\ IF goto_result'.kind # "Return"
         THEN nresult' = goto_result' /\ npos' = "raised"
         ELSE IF wait_for
         THEN npos' = "wait" /\ UNCHANGED nresult
         ELSE nresult' = goto_result' /\ npos' = "returned"
    /\ UNCHANGED << retryframe, clickvars, screen, standalone, tipvars, to >>

\* to.wait_for_by.wait(to.wait_for, self) with no wrapper around it: the first
\* failure of wait leaves navigate
NavWaitInvokeOnce ==
    /\ npos = "wait"
    /\ Enter(Some(NegativeTimeout), None, FALSE, 0, FALSE)
    /\ UNCHANGED clickvars

\* retry(to.wait_for_by.wait)(to.wait_for, self): the wrapper made on the
\* spot, with the defaults of retry and no overrides
NavWaitInvoke ==
    /\ npos = "wait"
    /\ Enter(None, None, FALSE, 0, FALSE)
    /\ UNCHANGED clickvars

\* the wrapper calls wait
NavWaitCall ==
    /\ npos = "wait" /\ pc = "call" /\ cpos = "start"
    /\ calls' = calls + 1
    /\ prev' = "call"
    /\ cpos' = "wait"
    /\ UNCHANGED << frame, now, pc, caught, result, nTransient, lastOp,
                    lastRaised, clickargs, return_value, clicks, waitframe >>

\* the failure of wait is the failure of the wrapper's attempt
NavHandle ==
    /\ npos = "wait" /\ pc = "call" /\ cpos = "handle"
    /\ RaiseInBody(waitRaised)
    /\ UNCHANGED << frame, now, result, calls, prev, clickargs, return_value,
                    clicks, waitframe >>

\* the wrapper returned: `return return_value`
NavWaitReturned ==
    /\ npos = "wait" /\ pc = "returned"
    /\ nresult' = Returned(return_value, 0)
    /\ npos' = "returned"
    /\ UNCHANGED << retryframe, clickvars, screen, standalone, tipvars, to, page_title,
                    goto_result >>

\* the wrapper raised
NavWaitRaised ==
    /\ npos = "wait" /\ pc = "raised"
    /\ nresult' = NavWaitError(result)
    /\ npos' = "raised"
    /\ UNCHANGED << retryframe, clickvars, screen, standalone, tipvars, to, page_title,
                    goto_result >>

NavNext ==
    \/ \E t \in Tos, wf \in BOOLEAN, wfb \in {"By", "NotBy"} :
          NavInvoke(t, wf, wfb)
    \/ NavContract
    \/ \E v \in Values, d \in DriverDurs : NavGetOk(v, d)
    \/ \E k \in DriverKinds, m \in Msgs : NavGetFail(k, m)
    \/ \E t \in Titles : NavTitle(t)
    \/ NavWaitInvoke
    \/ SkipPrep
    \/ NavWaitCall
    \/ WaitEnter
    \/ \E d \in DriverDurs : WaitFindOk(d)
    \/ \E k \in DriverKinds, m \in Msgs, d \in DriverDurs :
          WaitFindFail(k, m, d)
    \/ WaitPropagate
    \/ WaitTimesOut
    \/ WaitSleep
    \/ NavHandle
    \/ Propagate
    \/ Timeout
    \/ Sleep
    \/ NavWaitReturned
    \/ NavWaitRaised

NavSpec == InitWith(DefaultTimeout) /\ [][NavNext]_vars

\* ------------------------------------------------------ accesses to By
\* the variables of the browser and of the calls it has under way
browser == << retryframe, clickvars, screen, navvars, tipvars >>

\* By[item]
RegGetItem(item) ==
    /\ reg_op' = [op |-> "getitem", key |-> item, value |-> NoneValue]
    /\ reg_result' = GetItem(registry, item)
    /\ UNCHANGED << registry, browser, objvars, fillvars >>

\* By.item
RegGetAttr(item) ==
    /\ reg_op' = [op |-> "getattr", key |-> item, value |-> NoneValue]
    /\ reg_result' = GetAttr(registry, item)
    /\ UNCHANGED << registry, browser, objvars, fillvars >>

\* By[key] = value
RegSetItem(key, value) ==
    /\ reg_op' = [op |-> "setitem", key |-> key, value |-> value]
    /\ reg_result' = SetItem(registry, key, value).out
    /\ registry' = SetItem(registry, key, value).reg
    /\ UNCHANGED << browser, objvars, fillvars >>

\* By.key = value
RegSetAttr(key, value) ==
    /\ reg_op' = [op |-> "setattr", key |-> key, value |-> value]
    /\ reg_result' = SetAttr(registry, key, value).out
    /\ registry' = SetAttr(registry, key, value).reg
    /\ UNCHANGED << browser, objvars, fillvars >>

RegNext ==
    \/ \E item \in Names \cup {NoneKey} : RegGetItem(item)
    \/ \E item \in Names : RegGetAttr(item)
    \/ \E key \in Names \cup {NoneKey}, value \in Clauses :
          RegSetItem(key, value)
    \/ \E key \in Names, value \in Clauses : RegSetAttr(key, value)

RegSpec == Init /\ [][RegNext]_vars

\* ------------------------------------------- Browser objects and quit
\* the values a caller passes at construction
Directories == { "/srv/downloads" }
Hosts == { "example.org" }
Ports == { 8080 }
Executables == { "/opt/chromedriver" }

\* an attribute read on an object: the attribute of the object when it has
\* been set, else the attribute of the class
Attr(self, name) ==
    IF self[name] = None THEN ClassBrowser[name] ELSE self[name][1]

\* the directory the driver of an object saves downloads to: the
\* "download.default_directory" preference when options were made
Downloads(self) ==
    IF self.options = None THEN DriverDownloads ELSE self.options[1]

\* Browser(scenario, download_directory=dd, app_host=h, app_port=p,
\* executable_path=e), None for an argument that is not passed; the driver
\* starts, and quit is registered to run at exit
New(dd, h, p, e) ==
    /\ exited = {}
    /\ Len(instances) < MaxInstances
    /\ LET self == [ given |-> [ download_directory |-> dd, app_host |-> h,
                                 app_port |-> p, executable_path |-> e ],
                     options |-> dd,
                     app_host |-> h,
                     app_port |-> p,
                     executable_path |-> e,
                     started_with |-> IF e = None
                                        THEN ClassBrowser.executable_path
                                        ELSE e[1],
                     session |-> "open",
                     registered |-> TRUE ]
       IN  instances' = Append(instances, self)
    /\ b_self' = Len(instances) + 1
    /\ b_result' = Done
    /\ underlying' = Done
    /\ UNCHANGED << browser, regvars, fillvars, quits, exited >>

\* the driver does not start: super(Browser, self).__init__ raises, and no
\* object and no exit hook is left
NewFails ==
    /\ exited = {}
    /\ Len(instances) < MaxInstances
    /\ b_self' = 0
    /\ b_result' = Fault("WebDriverException", 0)
    /\ underlying' = Done
    /\ UNCHANGED << browser, regvars, fillvars, instances, quits, exited >>

\* the body of self.quit() for object i, u what the driver's quit does
QuitBody(i, u) ==
    /\ u \in DriverQuit(instances[i].session)
    /\ underlying' = u
    /\ b_self' = i
    /\ b_result' = QuitOutcome(u)
    /\ instances' = [instances EXCEPT ![i].session =
                        IF u = Done THEN "closed" ELSE @]

\* an explicit call of quit
Quit(i, u) ==
    /\ exited = {}
    /\ quits < MaxQuits
    /\ quits' = quits + 1
    /\ QuitBody(i, u)
    /\ UNCHANGED << browser, regvars, fillvars, exited >>

\* the process exits: the hook registered by object i runs
AtExit(i, u) ==
    /\ instances[i].registered
    /\ i \notin exited
    /\ exited' = exited \cup {i}
    /\ QuitBody(i, u)
    /\ UNCHANGED << browser, regvars, fillvars, quits >>

Outcomes ==
    { Done, Fault("URLError", 61), Fault("URLError", 111),
      Fault("URLError", 110), Fault("WebDriverException", 0) }

ObjNext ==
    \/ \E dd \in Overrides(Directories), h \in Overrides(Hosts),
          p \in Overrides(Ports), e \in Overrides(Executables) :
             New(dd, h, p, e)
    \/ NewFails
    \/ \E i \in 1..Len(instances), u \in Outcomes : Quit(i, u)
    \/ \E i \in 1..Len(instances), u \in Outcomes : AtExit(i, u)

ObjSpec == Init /\ [][ObjNext]_vars

\* ------------------------------------------------------- Browser.fill
\* fill(what, text, by, check, check_against, check_attribute, empty); ok
\* says whether the arguments have the types of the contract
FillInvoke(ok, text, check, ca, empty) ==
    /\ f_pos = "idle" /\ f_result = NoOutcome
    /\ f_args' = [ ok |-> ok, text |-> text, check |-> check,
                   check_against |-> ca, empty |-> empty ]
    /\ f_pos' = "contract"
    /\ UNCHANGED << browser, regvars, objvars, f_log, f_value, f_attr,
                    f_result >>

\* the seven must_be of fill
FillContract ==
    /\ f_pos = "contract"
    /\ IF f_args.ok
         THEN f_pos' = "find" /\ UNCHANGED f_result
         ELSE /\ f_result' = must_be(1)
              /\ f_pos' = "raised"
    /\ UNCHANGED << browser, regvars, objvars, f_args, f_log, f_value,
                    f_attr >>

\* element = self.find_element(value=what, by=by) returns, the must_be of
\* _fill hold, `if empty:`
FillFindOk ==
    /\ f_pos = "find"
    /\ f_log' = Append(f_log, "find")
    /\ f_pos' = IF f_args.empty THEN "clear" ELSE "send_keys"
    /\ UNCHANGED << browser, regvars, objvars, f_args, f_value, f_attr,
                    f_result >>

\* the call on the driver or the element that fill is at raises
FillDriverFail(k, m) ==
    /\ f_pos \in {"find", "clear", "send_keys", "get_attribute"}
    /\ f_log' = Append(f_log, f_pos)
    /\ f_result' = Failure(k, m, 1)
    /\ f_pos' = "raised"
    /\ UNCHANGED << browser, regvars, objvars, f_args, f_value, f_attr >>

\* element.clear() returns
FillClearOk ==
    /\ f_pos = "clear"
    /\ f_log' = Append(f_log, "clear")
    /\ f_pos' = "send_keys"
    /\ UNCHANGED << browser, regvars, objvars, f_args, f_value, f_attr,
                    f_result >>

\* return_value = element.send_keys(text) returns v, `if check:`
FillSendOk(v) ==
    /\ f_pos = "send_keys"
    /\ f_log' = Append(f_log, "send_keys")
    /\ f_value' = v
    /\ IF f_args.check
         THEN f_pos' = "get_attribute" /\ UNCHANGED f_result
         ELSE f_pos' = "returned" /\ f_result' = Returned(v, 1)
    /\ UNCHANGED << browser, regvars, objvars, f_args, f_attr >>

\* `assert check_against in element.get_attribute(check_attribute)`, the
\* attribute being attr, and `return return_value`
FillCheck(attr) ==
    /\ f_pos = "get_attribute"
    /\ f_log' = Append(f_log, "get_attribute")
    /\ f_attr' = Some(attr)
    /\ IF Contains(CheckAgainst(f_args), attr)
         THEN f_pos' = "returned" /\ f_result' = Returned(f_value, 1)
         ELSE /\ f_pos' = "raised"
              /\ f_result' = Failure("AssertionError", << >>, 1)
    /\ UNCHANGED << browser, regvars, objvars, f_args, f_value >>

\* the attribute values the element can have
AttrTexts == Texts \cup { << >>, << "b", "a", "b" >> }

FillNext ==
    \/ \E ok \in BOOLEAN, text \in Texts, check \in BOOLEAN,
          ca \in Overrides(Texts), empty \in BOOLEAN :
             FillInvoke(ok, text, check, ca, empty)
    \/ FillContract
    \/ FillFindOk
    \/ \E k \in DriverKinds, m \in Msgs : FillDriverFail(k, m)
    \/ FillClearOk
    \/ \E v \in Values : FillSendOk(v)
    \/ \E attr \in AttrTexts : FillCheck(attr)

FillSpec == Init /\ [][FillNext]_vars

\* ------------------------------------------- Browser.text_is_present
\* the texts the body of the page can have
BodyTexts == Texts \cup { << >> }

\* `except Exception: return False`
TipCaughtAny(e) == TRUE

\* `except cant_see_exceptions: return False`
TipCaught(e) == e.kind \in cant_see_exceptions

\* text_is_present(text, ...) is entered
TipCall(text) ==
    /\ pc = "idle" /\ t_pos = "idle" /\ invocations = 0
    /\ t_text' = text
    /\ t_pos' = "try"
    /\ UNCHANGED << retryframe, clickvars, screen, navvars, standalone, body,
                    present, t_raised >>

\* self._text_is_present(text, *args, **kwargs): the wrapper of @retry takes
\* the overrides the caller gave
TipInvoke(ot, oi) ==
    /\ t_pos = "try"
    /\ Enter(ot, oi, FALSE, 0, FALSE)
    /\ UNCHANGED clickvars

\* self.find_element_by_tag_name('body') returns the body, whose text is b
TipFindOk(b, d) ==
    /\ t_pos = "try" /\ pc = "call" /\ cpos = "start"
    /\ body' = b
    /\ calls' = calls + 1
    /\ prev' = "call"
    /\ now' = now + d
    /\ cpos' = "index"
    /\ UNCHANGED << pc, caught, lastOp, lastRaised, nTransient, config, locals,
                    invocations, inputs, attempts, preps, sleepLog, nPrepFail,
                    result, clickargs, return_value, clicks, waitframe,
                    screen, navvars, standalone, t_text, t_pos, present,
                    t_raised >>

\* self.find_element_by_tag_name('body') raises
TipFindFail(k, m, d) ==
    /\ t_pos = "try" /\ pc = "call" /\ cpos = "start"
    /\ calls' = calls + 1
    /\ prev' = "call"
    /\ now' = now + d
    /\ RaiseInBody(Failure(k, m, attempts))
    /\ UNCHANGED << frame, result, clickargs, return_value, clicks,
                    waitframe >>

\* the read of .text raises
TipTextFail(k, m) ==
    /\ t_pos = "try" /\ pc = "call" /\ cpos = "index"
    /\ RaiseInBody(Failure(k, m, attempts))
    /\ UNCHANGED << frame, now, result, calls, prev, clickargs, return_value,
                    clicks, waitframe >>

\* .text.index(text): ValueError when the text is not in the body; the
\* index is dropped and _text_is_present returns None
TipIndex ==
    /\ t_pos = "try" /\ pc = "call" /\ cpos = "index"
    /\ IF Contains(t_text, body)
         THEN /\ ReturnFromBody(0)
              /\ UNCHANGED << caught, lastRaised, nTransient >>
         ELSE /\ RaiseInBody(Failure("ValueError", <<"substring not found">>,
                                     attempts))
              /\ UNCHANGED result
    /\ UNCHANGED << frame, now, calls, prev, clickargs, return_value, clicks,
                    waitframe >>

\* `else: return True`
TipReturned ==
    /\ t_pos = "try" /\ pc = "returned"
    /\ present' = Some(TRUE)
    /\ t_pos' = "done"
    /\ UNCHANGED << retryframe, clickvars, screen, navvars, standalone,
                    t_text, body, t_raised >>

\* `except cant_see_exceptions: return False`; any other failure leaves
\* text_is_present
TipRaised ==
    /\ t_pos = "try" /\ pc = "raised"
    /\ IF TipCaught(result)
         THEN present' = Some(FALSE) /\ UNCHANGED t_raised
         ELSE t_raised' = result /\ UNCHANGED present
    /\ t_pos' = "done"
    /\ UNCHANGED << retryframe, clickvars, screen, navvars, standalone,
                    t_text, body >>

TipNext ==
    \/ \E text \in Texts : TipCall(text)
    \/ \E ot \in Overrides(Timeouts), oi \in Overrides(Intervals) :
          TipInvoke(ot, oi)
    \/ SkipPrep
    \/ \E b \in BodyTexts, d \in DriverDurs : TipFindOk(b, d)
    \/ \E k \in DriverKinds, m \in Msgs, d \in DriverDurs :
          TipFindFail(k, m, d)
    \/ \E k \in DriverKinds, m \in Msgs : TipTextFail(k, m)
    \/ TipIndex
    \/ Propagate
    \/ Timeout
    \/ Sleep
    \/ TipReturned
    \/ TipRaised

TipSpec == InitWith(DefaultTimeout) /\ [][TipNext]_vars

\* ------------------------------------------------------------ properties
\* What the specification says the effective settings of an invocation are.
SpecTransient ==
    { "NoSuchElementException", "InvalidElementStateException",
      "ElementNotVisibleException", "ElementStillThereError", "ValueError" }
SpecTimeout == IF ovTimeout = None THEN timeout ELSE ovTimeout[1]
SpecInterval == IF ovInterval = None THEN interval ELSE ovInterval[1]
Deadline == start_time + SpecTimeout

\* C1: when the operation succeeds on its Nth invocation after N-1 transient
\* failures, the wrapper returns exactly the value that invocation returned
\* and has invoked the operation exactly N times.
RetryReturnsNthResult ==
    pc = "returned" =>
        /\ result = lastOp
        /\ result.kind = "Return"
        /\ result.val \in Values
        /\ calls = nTransient + 1

C1Witness ==
    pc = "returned" /\ result.val = 42 /\ calls = 3 /\ nTransient = 2

\* C2: when an attempt fails with a transient failure and the clock has
\* passed the deadline, the wrapper raises that very failure object (the one
\* of the last attempt, same class and message), never a synthetic one.
RetryExhaustedRaisesLast ==
    /\ [][ (pc = "except" /\ lastRaised.kind \in SpecTransient
                          /\ now > Deadline)
           => (pc' = "raised" /\ result' = lastRaised
                              /\ result'.att = attempts) ]_vars
    /\ [](pc = "raised" /\ result.kind \in SpecTransient
            => result = lastRaised /\ result.att = attempts)

C2Witness ==
    /\ pc = "raised" /\ result.kind = "NoSuchElementException"
    /\ attempts = 3 /\ calls = 3 /\ nTransient = 3 /\ now > Deadline

\* C3: a non-transient failure raised on the kth invocation of the operation
\* leaves the wrapper at once: no sleep, no further hook or operation call,
\* and the operation has been invoked exactly k times.
RetryPropagatesNonTransient ==
    /\ [][ (pc = "except" /\ lastRaised.kind \notin SpecTransient)
           => (pc' = "raised" /\ result' = lastRaised /\ calls' = calls
               /\ preps' = preps /\ attempts' = attempts
               /\ sleepLog' = sleepLog /\ now' = now) ]_vars
    /\ [](pc = "raised" /\ result.kind \notin SpecTransient /\ prev = "call"
            => calls = nTransient + 1 /\ Len(sleepLog) = attempts - 1)
    /\ [][ pc = "raised" => (pc' = "idle" /\ now' = now) ]_vars

C3Witness ==
    /\ pc = "raised" /\ result.kind = "AssertionError" /\ prev = "call"
    /\ calls = 2 /\ now <= Deadline

\* C4 as stated: with a hook supplied, the number of hook invocations equals
\* the number of operation invocations started (read at the points where no
\* hook call is waiting for the operation call that follows it).
HookCountEqualsCalls ==
    (prep = TRUE /\ pc \in {"try", "except", "returned", "raised"})
        => preps = calls

\* C4 amended: with a hook supplied, the hook is invoked exactly once at the
\* start of every attempt, the first included; every operation invocation is
\* immediately preceded by a hook invocation that returned; hook invocations
\* equal operation invocations started plus hook invocations that raised.
HookOncePerAttempt ==
    /\ [](prep = TRUE /\ pc # "idle"
            => /\ preps = (IF pc = "try" THEN attempts - 1 ELSE attempts)
               /\ calls + nPrepFail = (IF pc = "call" THEN preps - 1
                                                      ELSE preps))
    /\ [][ (prep = TRUE /\ calls' = calls + 1)
             => (pc = "call" /\ prev = "prep") ]_vars
    /\ [][ (prep = TRUE /\ pc = "try" /\ pc' # pc)
             => preps' = preps + 1 ]_vars

C4Witness ==
    /\ pc = "returned" /\ prep = TRUE
    /\ attempts = 3 /\ preps = 3 /\ calls = 2 /\ nPrepFail = 1

\* C5: a transient failure observed at or before the deadline (start of the
\* call + effective timeout, fixed for the invocation) is followed by a sleep
\* of the interval and a new attempt; it reaches the caller only when the
\* clock read after the failure is strictly greater than the deadline.
RetryAbsorbsUntilDeadline ==
    /\ [](pc = "raised" /\ result.kind \in SpecTransient => now > Deadline)
    /\ [](pc # "idle" => end_time = Deadline)
    /\ [][ (pc # "idle" /\ pc' # "idle") => end_time' = end_time ]_vars
    /\ [][ (pc = "except" /\ lastRaised.kind \in SpecTransient
                          /\ now <= Deadline)
           => (pc' = "try" /\ attempts' = attempts + 1
               /\ now' = now + SpecInterval
               /\ sleepLog' = Append(sleepLog, SpecInterval)) ]_vars

C5Witness ==
    /\ pc = "raised" /\ result.kind = "ElementNotVisibleException"
    /\ attempts = 3 /\ now = Deadline + 1 /\ SpecTimeout = 1

RetryTerminates ==
    (pc # "idle" /\ (retry_interval > 0 \/ minDur > 0))
        ~> (pc \in {"returned", "raised"})

C7Witness ==
    /\ pc = "raised" /\ attempts = ExampleTimeout + 2
    /\ retry_timeout = ExampleTimeout /\ retry_interval > 0

RECURSIVE SumSeq(_)
SumSeq(q) == IF q = << >> THEN 0 ELSE Head(q) + SumSeq(Tail(q))

Elapsed == now - start_time

\* the worked example: decorator timeout, interval of one tick, no hook, calls
\* that take no time, three transient failures and then 42
ExampleRun ==
    /\ pc = "returned" /\ result.val = 42 /\ nTransient = 3
    /\ prep = FALSE
    /\ SpecTimeout = ExampleTimeout /\ SpecInterval = DefaultInterval
    /\ Elapsed = SumSeq(sleepLog)

\* C8: the wait between attempts is constant: N attempts, N-1 sleeps, each
\* of the effective interval, none before the first attempt and none after
\* the last; in the worked example 4 calls, 3 sleeps, elapsed within
\* 3 ticks .. timeout.
ConstantInterval ==
    /\ pc # "idle" =>
        /\ Len(sleepLog) = attempts - 1
        /\ \A i \in 1..Len(sleepLog) : sleepLog[i] = SpecInterval
        /\ Elapsed >= SumSeq(sleepLog)
        /\ (nPrepFail = 0 /\ pc \in {"returned", "raised"})
              => calls = attempts
    /\ ExampleRun =>
        /\ calls = 4 /\ Len(sleepLog) = 3
        /\ Elapsed >= 3 * DefaultInterval /\ Elapsed <= ExampleTimeout

C8Witness == ExampleRun /\ sleepLog = << 1, 1, 1 >>

\* C9: exactly the failures of the five listed classes are retried, in every
\* invocation whatever its arguments; a failure of any other class, the five
\* named ones included, is raised to the caller on the attempt that met it.
NeverRetried ==
    { "WaitFailedError", "DontRetryError", "NavigationError",
      "FrontEndError", "AssertionError" }

TransientSetClosed ==
    /\ [][ (pc = "except" /\ pc' = "try")
             => lastRaised.kind \in SpecTransient ]_vars
    /\ [][ (pc = "except" /\ lastRaised.kind \in SpecTransient
                          /\ now <= Deadline) => pc' = "try" ]_vars
    /\ [][ (pc = "except" /\ (lastRaised.kind \in NeverRetried
                              \/ lastRaised.kind \notin SpecTransient))
             => (pc' = "raised" /\ result' = lastRaised) ]_vars

C9Witness ==
    /\ pc = "raised" /\ result.kind = "WaitFailedError"
    /\ calls = 2 /\ nTransient = 1 /\ now <= Deadline /\ ovTimeout # None

\* the cannot-see failures and the other transient failures, as the
\* specification lists them
SpecCantSee ==
    { "NoSuchElementException", "ElementNotVisibleException", "ValueError" }

SpecOtherTransient ==
    { "InvalidElementStateException", "ElementStillThereError" }

\* what click raises for the wait failure e
SpecWaitErrorKind(e) ==
    IF e.kind \in SpecCantSee THEN "WaitFailedError" ELSE "DontRetryError"

\* C10: in click with a wait_for post-condition, once element.click() has
\* succeeded the retry loop of click starts no further attempt, so the element
\* is clicked successfully at most once per call; a wait failure of the
\* cannot-see set leaves click as WaitFailedError, any other transient wait
\* failure as DontRetryError, each with a message and with the wait failure as
\* its cause, and that is what the call raises.
ClickNotRetriedAfterWaitFailure ==
    /\ clicks <= 1
    /\ (clicks = 1) =>
          (pc # "try" /\ (pc = "call" => cpos \in {"wait", "handle"}))
    /\ (wait_for /\ clicks = 1 /\ pc \in {"except", "raised"}
          /\ waitRaised.kind \in SpecCantSee \cup SpecOtherTransient) =>
          LET e == IF pc = "except" THEN caught ELSE result
          IN  /\ e.kind = SpecWaitErrorKind(waitRaised)
              /\ Len(e.msg) > 0 /\ e.msg[1] = "Wait failed"
              /\ e.cause = [ kind |-> waitRaised.kind,
                             msg |-> waitRaised.msg,
                             att |-> waitRaised.att ]

\* a call whose first attempt was retried, whose second attempt clicked the
\* element, and whose negative wait then ran out of time
C10Witness ==
    /\ pc = "raised" /\ wait_for /\ clicks = 1 /\ attempts = 2
    /\ result.kind = "DontRetryError"
    /\ result.cause.kind = "ElementStillThereError"

\* a call whose positive wait never saw the element
C10WitnessCantSee ==
    /\ pc = "raised" /\ wait_for /\ clicks = 1
    /\ result.kind = "WaitFailedError"
    /\ result.cause.kind = "NoSuchElementException"

\* the failure the specification prescribes while scr is on screen
SpecAlertMessage(scr) ==
    IF "warning" \in scr THEN <<"Warning alert is on screen">>
                         ELSE <<"Danger alert is on screen">>

AlertOnScreen == "warning" \in screen \/ "danger" \in screen

WrapperPropagates ==
    pc = "raised" =>
        /\ result = lastRaised
        /\ result.kind \in SpecTransient => now > Deadline

\* C13 as stated: transient failures are absorbed up to the deadline and
\* every other failure reaches the caller of navigate as the original
\* failure, unchanged.
LayerPropagatesUnchanged ==
    /\ WrapperPropagates
    /\ (npos = "raised" /\ pc = "raised") => nresult = result
    /\ (npos = "raised" /\ goto_result.kind \notin {"None", "Return"}) =>
          nresult = goto_result

\* C13: transient failures are absorbed up to the deadline and a failure
\* reaches the caller of navigate as the original failure, unchanged, except
\* that a NoSuchElementException of the element wait, raised once the wait's
\* wrapper has passed its deadline, is replaced by a NavigationError that
\* does not carry it.
LayerPropagatesExceptWait ==
    /\ WrapperPropagates
    /\ (npos = "raised" /\ pc = "raised") =>
          IF result.kind = "NoSuchElementException"
            THEN nresult.kind = "NavigationError" /\ nresult.cause = NoCause
            ELSE nresult = result
    /\ (npos = "raised" /\ goto_result.kind \notin {"None", "Return"}) =>
          nresult = goto_result

\* the element never showed: the third call of wait ends after the deadline
\* of the wrapper made in navigate
C13Witness ==
    /\ npos = "raised" /\ pc = "raised" /\ attempts = 3
    /\ result.kind = "NoSuchElementException" /\ now > Deadline
    /\ nresult.kind = "NavigationError"

\* a failure of the element wait that navigate passes on as it is
C13WitnessUnchanged ==
    /\ npos = "raised" /\ pc = "raised"
    /\ result.kind = "ElementStillThereError" /\ nresult = result

\* C14: the wait of a negative strategy returns on the first attempt whose
\* lookup fails with a cannot-see failure; an attempt that finds the element
\* raises ElementStillThereError inside the wait, which is retried at the
\* constant interval while the deadline, 5 s (50 ticks) after the start of
\* the wait, has not passed, and reaches the caller only after it.  The wait
\* of a positive strategy returns on the first attempt that finds the
\* element, and a transient lookup failure is retried until its 5 s deadline.
WaitForAbsenceAndPresence ==
    /\ [][w_pc = "idle" /\ w_pc' = "call" => w_end_time' = now + 50]_vars
    /\ [][w_pc = "call" /\ wait_for_by = "NotBy" =>
            IF w_lookup' \in SpecCantSee
              THEN pc' = "returned" /\ w_pc' = "idle"
            ELSE IF w_lookup' = "found"
              THEN /\ w_pc' = "except"
                   /\ w_caught'.kind = "ElementStillThereError"
                   /\ pc' = pc
            ELSE w_pc' = "except" /\ w_caught'.kind = w_lookup']_vars
    /\ [][w_pc = "call" /\ wait_for_by = "By" =>
            IF w_lookup' = "found"
              THEN pc' = "returned" /\ w_pc' = "idle"
              ELSE w_pc' = "except" /\ w_caught'.kind = w_lookup']_vars
    /\ [][w_pc = "except" /\ w_caught.kind \in SpecTransient =>
            IF now <= w_end_time
              THEN w_pc' = "call" /\ now' = now + DefaultInterval
              ELSE /\ w_pc' = "idle" /\ cpos' = "handle"
                   /\ waitRaised' = w_caught]_vars

\* the element is still there on the second lookup of a negative wait, which
\* ends after the deadline of the wait
C14Witness ==
    /\ wait_for_by = "NotBy" /\ w_pc = "except" /\ w_attempts = 2
    /\ w_caught.kind = "ElementStillThereError" /\ now > w_end_time

\* a negative wait that returned because its lookup raised ValueError
C14WitnessAbsent ==
    /\ wait_for_by = "NotBy" /\ pc = "returned" /\ w_lookup = "ValueError"
    /\ attempts = 1 /\ now > 0

\* a name that starts with 'NOT_'
SpecNegativeName(k) ==
    /\ k # NoneKey /\ Len(k) >= 4
    /\ k[1] = "N" /\ k[2] = "O" /\ k[3] = "T" /\ k[4] = "_"

\* the strategies, as opposed to the value None
SpecStrategy(v) == v.kind \in {"ByClause", "NegativeByClause"}

\* what reading name k gives by the specification, when it says so: the
\* entry under k, or for 'NOT_' + the name of a registered strategy the
\* negative strategy derived from that entry
SpecReadDefined(k) ==
    \/ k \in DOMAIN registry
    \/ /\ SpecNegativeName(k)
       /\ SubSeq(k, 5, Len(k)) \in DOMAIN registry
       /\ SpecStrategy(registry[SubSeq(k, 5, Len(k))])

SpecRead(k) ==
    IF k \in DOMAIN registry THEN Gave(registry[k])
    ELSE Gave([ kind |-> "NegativeByClause",
                by |-> registry[SubSeq(k, 5, Len(k))].by,
                convert |-> registry[SubSeq(k, 5, Len(k))].convert ])

\* no stored name starts with 'NOT_'
NoNegativeNameStored ==
    \A k \in DOMAIN registry : ~SpecNegativeName(k)

\* a write under a name that starts with 'NOT_' raises ValueError and leaves
\* the registry as it was; any other write, of either style, stores the value
\* under the name; a read stores nothing
WritesAndReadsOfRegistry ==
    /\ reg_op'.op \in {"setitem", "setattr"} =>
         IF SpecNegativeName(reg_op'.key)
           THEN reg_result'.kind = "ValueError" /\ registry' = registry
           ELSE /\ reg_result'.kind = "value"
                /\ DOMAIN registry' = DOMAIN registry \cup {reg_op'.key}
                /\ registry'[reg_op'.key] = reg_op'.value
                /\ \A k \in DOMAIN registry :
                      k # reg_op'.key => registry'[k] = registry[k]
    /\ reg_op'.op \in {"getitem", "getattr"} => registry' = registry

\* a read by key gives the entry, or the derived negative strategy
KeyReadsOfRegistry ==
    (reg_op.op = "getitem" /\ SpecReadDefined(reg_op.key)) =>
        reg_result = SpecRead(reg_op.key)

\* a read by attribute gives what the read by key gives
AttributeReadsOfRegistry ==
    (reg_op.op = "getattr" /\ SpecReadDefined(reg_op.key)) =>
        reg_result = SpecRead(reg_op.key)

\* C15: after any sequence of key-style and attribute-style writes no stored
\* name starts with 'NOT_' (such a write raises ValueError and changes
\* nothing); attribute-style and key-style access read and write the same
\* entries; reading 'NOT_' + name for a registered strategy gives a negative
\* strategy with the lookup method and the value transform of the registered
\* one and stores nothing.
RegistryInvariant ==
    /\ []NoNegativeNameStored
    /\ [][WritesAndReadsOfRegistry]_vars
    /\ []KeyReadsOfRegistry
    /\ []AttributeReadsOfRegistry

\* the part of C15 that is not about reads by attribute
RegistryInvariantByKey ==
    /\ []NoNegativeNameStored
    /\ [][WritesAndReadsOfRegistry]_vars
    /\ []KeyReadsOfRegistry

\* the entry stored under 'negative_prefix' is read by key, and the read by
\* attribute gives the class attribute "NOT_" instead
C15Witness ==
    /\ reg_op.op = "getattr" /\ reg_op.key = NameNegativePrefix
    /\ NameNegativePrefix \in DOMAIN registry
    /\ registry[NameNegativePrefix].kind = "ByClause"
    /\ reg_result = Gave(PrefixValue)

\* the failure the driver's quit raises on a session that is already closed
SpecConnectionRefused(u) ==
    u.kind = "URLError" /\ u.errno \in {61, 111}

C16WitnessRaised ==
    /\ b_self = 1 /\ underlying = Fault("URLError", 110)
    /\ b_result = underlying /\ instances[1].session = "open"

\* the value the specification gives an argument: the one passed, else the
\* fixed default
SpecValue(given, default) == IF given = None THEN default ELSE given[1]

\* host, port and driver executable of every object are the values passed
\* or the defaults, whatever other objects were made with
HostPortExecutableDefaults ==
    \A i \in 1..Len(instances) :
        LET self == instances[i] IN
        /\ Attr(self, "app_host") = SpecValue(self.given.app_host, "localhost")
        /\ Attr(self, "app_port") = SpecValue(self.given.app_port, 5000)
        /\ Attr(self, "executable_path") =
              SpecValue(self.given.executable_path,
                        "/usr/local/bin/chromedriver")
        /\ self.started_with = Attr(self, "executable_path")

\* C17: at construction the download directory, the application host, the
\* application port and the driver executable each take the value passed by
\* the caller, and without one the fixed default ('./tmp', 'localhost', 5000,
\* '/usr/local/bin/chromedriver'); what one object is given does not change
\* what another object sees.
ConstructionDefaults ==
    /\ HostPortExecutableDefaults
    /\ \A i \in 1..Len(instances) :
          Downloads(instances[i]) =
              SpecValue(instances[i].given.download_directory, "./tmp")

\* an object made without a download directory, after one made with all four
\* arguments: its driver was started without options
C17Witness ==
    /\ Len(instances) = 2
    /\ instances[1].given.download_directory # None
    /\ instances[1].given.app_host # None
    /\ instances[2].given.download_directory = None
    /\ instances[2].given.app_host = None
    /\ Attr(instances[2], "app_host") = "localhost"
    /\ Downloads(instances[2]) = DriverDownloads

\* the calls fill makes by the specification, in their order
SpecFillCalls(given) ==
    <<"find">> \o (IF given.empty THEN <<"clear">> ELSE << >>)
               \o <<"send_keys">>
               \o (IF given.check THEN <<"get_attribute">> ELSE << >>)

\* the text the attribute is to contain
SpecExpected(given) ==
    IF given.check_against = None THEN given.text ELSE given.check_against[1]

\* hay contains needle
SpecContains(needle, hay) ==
    \E a, b \in AttrTexts \cup { <<"b">> \o t : t \in AttrTexts } :
        hay = a \o needle \o b

C18WitnessContained ==
    /\ f_pos = "returned" /\ f_args.check /\ f_args.check_against = None
    /\ f_args.text = <<"a">> /\ f_attr = Some(<<"b", "a", "b">>)

AttemptBeforeDeadlineTest ==
    /\ [](pc \in {"returned", "raised"} =>
            attempts >= 1 /\ (calls >= 1 \/ nPrepFail >= 1))
    /\ [](pc = "returned" => result.kind = "Return" /\ result = lastOp)
    /\ [][pc = "idle" /\ pc' # "idle" => pc' = "try" /\ attempts' = 1]_vars
    /\ [][pc # "raised" /\ pc' = "raised" => pc = "except"]_vars
    /\ [][pc = "call" /\ lastOp'.kind = "Return"
            => pc' = "returned" /\ result' = lastOp']_vars

\* a negative timeout: the deadline has passed before the only attempt starts
C20Witness ==
    /\ pc = "returned" /\ SpecTimeout = NegativeTimeout
    /\ attempts = 1 /\ calls = 1 /\ start_time > Deadline
    /\ result.kind = "Return"

\* a third attempt that starts after the deadline and succeeds
C20WitnessLate ==
    /\ pc = "returned" /\ SpecTimeout = 1
    /\ attempts = 3 /\ nTransient = 2
    /\ sleepLog = << 1, 1 >>
    /\ now > Deadline /\ result.kind = "Return"

\* a timeout of zero: one failed attempt that takes time is the last
C20WitnessZero ==
    /\ pc = "raised" /\ SpecTimeout = 0
    /\ attempts = 1 /\ calls = 1 /\ now > Deadline

\* C21: when every attempt of an invocation fails with a transient failure
\* and neither the hook nor the operation takes time, with a timeout t >= 0
\* and an interval i > 0, the invocation makes exactly floor(t / i) + 2
\* attempts: a failure met exactly at the deadline is still retried, and the
\* last attempt starts after the deadline and at most one interval after it.
NoTimeInAttempts == Elapsed = SumSeq(sleepLog)

C21WitnessExample ==
    /\ pc = "raised" /\ result.kind \in SpecTransient
    /\ NoTimeInAttempts /\ ovTimeout = None /\ SpecInterval = 1
    /\ attempts = ExampleTimeout + 2

\* C22: a failure raised by the hook is handled as a failure of the operation
\* is.  The attempt whose hook failed does not invoke the operation; a
\* transient hook failure met at or before the deadline is followed by a sleep
\* of the interval and a new attempt, which runs the hook again; a hook
\* failure that is not transient, or is met after the deadline, is raised to
\* the caller as it is.
HookFailed == pc = "except" /\ prev = "prepfail"

HookFailureHandledAsOperationFailure ==
    /\ [](pc \in {"except", "returned", "raised"}
            => calls + nPrepFail = attempts)
    /\ [][ prev' = "prepfail" /\ prev # "prepfail"
             => /\ pc = "try" /\ pc' = "except" /\ calls' = calls
                /\ nPrepFail' = nPrepFail + 1 ]_vars
    /\ [][ (HookFailed /\ lastRaised.kind \in SpecTransient
                       /\ now <= Deadline)
             => /\ pc' = "try" /\ attempts' = attempts + 1
                /\ now' = now + SpecInterval /\ calls' = calls ]_vars
    /\ [][ (HookFailed /\ ( lastRaised.kind \notin SpecTransient
                            \/ now > Deadline ))
             => /\ pc' = "raised" /\ result' = lastRaised
                /\ calls' = calls /\ attempts' = attempts ]_vars
    /\ [][ (prep = TRUE /\ prev = "sleep" /\ pc = "try" /\ pc' # pc)
             => preps' = preps + 1 /\ pc' \in {"call", "except"} ]_vars

\* the hook fails twice with a transient failure, the third attempt runs the
\* operation once
C22Witness ==
    /\ pc = "returned" /\ prep = TRUE
    /\ attempts = 3 /\ preps = 3 /\ nPrepFail = 2 /\ calls = 1

\* a hook failure outside the transient set is raised on the first attempt
C22WitnessPropagated ==
    /\ pc = "raised" /\ prev = "prepfail" /\ attempts = 1 /\ calls = 0
    /\ result.kind \notin SpecTransient /\ now <= Deadline

\* a transient hook failure met after the deadline is raised; the operation
\* was never invoked
C22WitnessTimeout ==
    /\ pc = "raised" /\ prev = "prepfail" /\ result.kind \in SpecTransient
    /\ attempts = 3 /\ nPrepFail = 3 /\ calls = 0 /\ now > Deadline

\* C23: the names retry_timeout, retry_interval and prep are taken out of the
\* keyword arguments by the wrapper, which uses their values, and are never
\* among the arguments of the operation; every attempt of an invocation calls
\* the operation with the positional arguments and the other keyword
\* arguments the caller gave, unchanged from one attempt to the next.
SpecReserved == { "retry_timeout", "retry_interval", "prep" }

\* the arguments of `f(*args, **kwargs)`
Passed == << args, kwargs >>

ReservedNamesConsumed ==
    /\ [](pc # "idle" =>
            /\ \A e \in kwargs : e[1] \notin SpecReserved
            /\ Passed = << callerArgs,
                           { e \in callerKwargs : e[1] \notin SpecReserved } >>
            /\ \A e \in callerKwargs :
                  /\ e[1] = "retry_timeout" => retry_timeout = e[2]
                  /\ e[1] = "retry_interval" => retry_interval = e[2]
            /\ prep = (\E e \in callerKwargs : e[1] = "prep"))
    /\ [][ (pc # "idle" /\ pc' # "idle") => Passed' = Passed ]_vars

\* the second attempt of a call given all three reserved names, a positional
\* and a keyword argument: the operation is about to be called with the
\* latter two only
C23Witness ==
    /\ pc = "call" /\ attempts = 2 /\ calls = 1
    /\ { e[1] : e \in callerKwargs } = SpecReserved \cup { "hover_time" }
    /\ Passed = << << 7 >>, { << "hover_time", 2 >> } >>

\* C24: text_is_present raises no failure of the cannot-see set (a missing
\* body, a missing text).  It returns True when an attempt finds the text in
\* the body, on that attempt; it returns False only when its wrapper gave up:
\* every attempt failed, the last with a cannot-see failure met after the
\* deadline (start + 30 s, or + the retry_timeout of the call), never at or
\* before it.
TextIsPresentAnswer ==
    /\ [](t_raised # NoOutcome => t_raised.kind \notin SpecCantSee)
    /\ [](ovTimeout = None /\ pc # "idle" => Deadline = start_time + 300)
    /\ [](present = Some(TRUE) =>
            /\ pc = "returned" /\ SpecContains(t_text, body)
            /\ lastOp.att = attempts /\ nTransient = attempts - 1)
    /\ [](present = Some(FALSE) =>
            /\ pc = "raised" /\ result.kind \in SpecCantSee
            /\ now > Deadline
            /\ nTransient = attempts)
    /\ [][ (t_pos = "try" /\ pc = "returned")
             => present' = Some(TRUE) /\ t_pos' = "done" ]_vars
    /\ [][ (t_pos = "try" /\ pc = "raised" /\ result.kind \in SpecCantSee)
             => present' = Some(FALSE) /\ t_raised' = NoOutcome ]_vars

\* the default deadline of 30 s passes and the text was never seen: False
C24Witness ==
    /\ present = Some(FALSE) /\ ovTimeout = None
    /\ attempts = 3 /\ result.kind = "ValueError" /\ now > 300
    /\ ~SpecContains(t_text, body)

\* the second attempt finds the text before the deadline: True
C24WitnessTrue ==
    /\ present = Some(TRUE) /\ attempts = 2 /\ now <= Deadline
    /\ t_text = << "b" >> /\ body = << "a", "b" >>

\* a per-call retry_timeout of two ticks, the body never found: False
C24WitnessOverride ==
    /\ present = Some(FALSE) /\ SpecTimeout = 2
    /\ result.kind = "NoSuchElementException" /\ now = Deadline + 1

\* a failure outside the cannot-see set leaves text_is_present
C24WitnessRaised ==
    /\ t_pos = "done" /\ present = None
    /\ t_raised.kind = "InvalidElementStateException" /\ now > Deadline

\* the lower case of the names navigate is given, and the configured keys
SpecLowered(name) ==
    CASE name = << "H", "o" >> -> << "h", "o" >>
      [] name = << "H", "i" >> -> << "h", "i" >>
      [] OTHER -> name

SpecPages == { << "h", "o" >>, << "H", "i" >> }

\* C25: navigate to a page with an expected element starts the wait for the
\* element only after goto returned, under an outer retry whose deadline is
\* 30 s (300 ticks) after its start, around the strategy's own wait with its
\* deadline of 5 s (50 ticks); navigate returns what goto returned once an
\* attempt found the element; when the lookups fail with an absent element
\* navigate raises NavigationError, and only after the outer deadline; a page
\* given by name is the entry of the configured pages under the lower-cased
\* name.
NavigateWaitsAfterGoto ==
    /\ [](pc # "idle" =>
            /\ wait_for /\ goto_result = Returned(return_value, 0)
            /\ npos \in {"wait", "returned", "raised"}
            /\ end_time = start_time + 300)
    /\ [][ (w_pc = "idle" /\ w_pc' # "idle")
             => pc = "call" /\ w_end_time' = now + 50 ]_vars
    /\ [](npos = "returned" /\ wait_for =>
            /\ pc = "returned" /\ nresult = goto_result
            /\ nresult = Returned(return_value, 0)
            /\ wait_for_by = "By" => w_lookup = "found")
    /\ [](npos = "raised" /\ pc = "raised"
                          /\ result.kind = "NoSuchElementException"
            => nresult.kind = "NavigationError" /\ now > start_time + 300)
    /\ [](nresult.kind = "NavigationError" /\ goto_result.kind = "Return"
            => /\ pc = "raised" /\ now > start_time + 300
               /\ w_lookup = "NoSuchElementException")
    /\ [](npos \notin {"idle", "contract"}
              /\ to \notin { << >>, AppPage, NotAPage }
            => (nresult.kind = "KeyError") = (SpecLowered(to) \notin SpecPages))

\* navigate('Ho') with the page registered as 'ho': three waits that never
\* find the element, NavigationError after the outer deadline
C25Witness ==
    /\ to = << "H", "o" >> /\ npos = "raised" /\ pc = "raised"
    /\ nresult.kind = "NavigationError" /\ goto_result.kind = "Return"
    /\ attempts = 3 /\ now > start_time + 300

\* the second outer attempt finds the element: goto's value is returned
C25WitnessFound ==
    /\ npos = "returned" /\ wait_for /\ wait_for_by = "By"
    /\ attempts = 2 /\ w_lookup = "found" /\ nresult = goto_result
    /\ now > start_time + 50

\* navigate('Hi') with the page registered as 'Hi': the lookup of 'hi' fails
C25WitnessCase ==
    /\ to = << "H", "i" >> /\ npos = "raised" /\ nresult.kind = "KeyError"

====
